---- MODULE Spec2Model ----
(***************************************************************************)
(* Model of datacube_ows/ogc_utils.py: the timezone resolver and solar     *)
(* date range (tz_for_coord, local_solar_date_range), the configurable     *)
(* function dispatch (get_function, FunctionWrapper) and the data          *)
(* collection containers (DataCollection, DatasetCollection).              *)
(***************************************************************************)
EXTENDS Integers, Sequences, FiniteSets, TLC

VARIABLES
    unit,        \* the unit being exercised: "tz", "fw" or "dc"
    \* timezone resolver
    tf,          \* the in-memory timezone index (TimezoneFinder)
    tzOp,        \* last operation run
    tzIn,        \* its inputs
    tzOut,       \* its outcome
    \* function dispatch
    func_cfg,    \* the configuration record object given to __init__
    func_cfg0,   \* history: func_cfg as it was when __init__ was entered
    product_cfg, \* the product configuration given to __init__
    w,           \* the FunctionWrapper object
    w0,          \* history: w as it was when __init__ returned
    fwOp,        \* last operation run
    callIn,      \* call-site arguments of the last __call__
    fwOut,       \* outcome of the last operation
    \* data collections
    cls,         \* class of the collection object
    _collections,\* its entries
    added,       \* history: the (time, payload) pairs given to add_time
    dcOp,        \* last operation run
    dcOut        \* its outcome

tzVars == <<tf, tzOp, tzIn, tzOut>>
fwVars == <<func_cfg, func_cfg0, product_cfg, w, w0, fwOp, callIn,
            fwOut>>
dcVars == <<cls, _collections, added, dcOp, dcOut>>
vars == <<unit, tf, tzOp, tzIn, tzOut, func_cfg, func_cfg0, product_cfg,
          w, w0, fwOp, callIn, fwOut, cls, _collections, added, dcOp,
          dcOut>>

(***************************************************************************)
(* Python values                                                           *)
(***************************************************************************)
None == "None"

\* ------------------------------------------------------------------------
\* Timezone resolver and solar date range
\* ------------------------------------------------------------------------

\* Largest calendar day number (days since the epoch) given to
\* local_solar_date_range.
MaxDay == 6

Lons == {150}
Lats == {-34, -60}
Coords == Lons \X Lats
Days == 1..MaxDay

Deltas == {9, 15}
TzNames == {"Australia/Sydney", "Etc/GMT-10"}

DaySecs == 24 * 3600

\* pytz zone data.  "first" is the class-level utc offset of the tzinfo
\* object (for a zone with transitions, the first entry of its transition
\* table, i.e. local mean time rounded to the minute); "std"/"dst" are the
\* offsets in force before/after the transition instant "dstFrom" (UTC).
Zones ==
    [n \in TzNames |->
        IF n = "Australia/Sydney"
        THEN [name |-> n, first |-> 10 * 3600 + 5 * 60, std |-> 10 * 3600,
              dst |-> 11 * 3600, dstFrom |-> 3 * DaySecs + 16 * 3600]
        ELSE [name |-> n, first |-> 10 * 3600, std |-> 10 * 3600,
              dst |-> 10 * 3600, dstFrom |-> 0]]

timezone(tzn) == Zones[tzn]

\* Offset a datetime gets when built with datetime(..., tzinfo=tz).
AttachedOffset(tz) == tz.first

\* Offset tz reports for a UTC instant (what astimezone(tz) applies).
OffsetAtUtc(tz, t) == IF t >= tz.dstFrom THEN tz.dst ELSE tz.std

\* datetime(y, m, d, hh, mm, ss, tzinfo=tz).astimezone(utc), in seconds
LocalToUtc(day, hh, mm, ss, tz) ==
    (day * DaySecs + hh * 3600 + mm * 60 + ss) - AttachedOffset(tz)

\* instant.astimezone(tz).date(), as a day number
LocalDateOf(t, tz) == (t + OffsetAtUtc(tz, t)) \div DaySecs

closest_timezone_at(lng, lat, delta_degree) == tf[<<lng, lat>>][delta_degree]

NoExc == [type |-> None, msg |-> ""]
NoTz == [name |-> None, first |-> 0, std |-> 0, dst |-> 0, dstFrom |-> 0]

\* Mutant: the wider lookup is made first.
tz_for_coord_wide_first(lon, lat) ==
    LET t15 == closest_timezone_at(lon, lat, 15)
        t9 == closest_timezone_at(lon, lat, 9)
    IN  IF t15 # None
        THEN [lookups |-> <<15>>, printed |-> <<>>, raised |-> FALSE,
              exc |-> NoExc, tzn |-> t15, tz |-> timezone(t15)]
        ELSE IF t9 # None
        THEN [lookups |-> <<15, 9>>, printed |-> <<>>, raised |-> FALSE,
              exc |-> NoExc, tzn |-> t9, tz |-> timezone(t9)]
        ELSE [lookups |-> <<15, 9>>, printed |-> <<>>, raised |-> TRUE,
              exc |-> [type |-> "Exception",
                       msg |-> "closest tz failed with delta 15deg"],
              tzn |-> None, tz |-> NoTz]

\* tz_for_coord: the lookups made (in order), the diagnostics printed and
\* the outcome (timezone returned or exception raised).
tz_for_coord(lon, lat) ==
    LET t9 == closest_timezone_at(lon, lat, 9)
        t15 == closest_timezone_at(lon, lat, 15)
    IN  IF t9 # None
        THEN [lookups |-> <<9>>, printed |-> <<>>, raised |-> FALSE,
              exc |-> NoExc, tzn |-> t9, tz |-> timezone(t9)]
        ELSE IF t15 # None
        THEN [lookups |-> <<9, 15>>,
              printed |-> <<"closest tz failed with delta 9deg">>,
              raised |-> FALSE, exc |-> NoExc, tzn |-> t15,
              tz |-> timezone(t15)]
        ELSE [lookups |-> <<9, 15>>,
              printed |-> <<"closest tz failed with delta 9deg">>,
              raised |-> TRUE,
              exc |-> [type |-> "Exception",
                       msg |-> "closest tz failed with delta 15deg"],
              tzn |-> None, tz |-> NoTz]

\* local_solar_date_range(geobox, date): geobox is given by its geographic
\* extent centroid, date by its day number.
local_solar_date_range(centroid, date) ==
    LET r == tz_for_coord(centroid[1], centroid[2])
    IN  IF r.raised
        THEN [res |-> r, start |-> 0, end |-> 0]
        ELSE [res |-> r,
              start |-> LocalToUtc(date, 0, 0, 0, r.tz),
              end |-> LocalToUtc(date, 23, 59, 59, r.tz)]

NoTzRes == [lookups |-> <<>>, printed |-> <<>>, raised |-> FALSE,
            exc |-> NoExc, tzn |-> None, tz |-> NoTz]

TzIdle ==
    /\ tzOp = "none"
    /\ tzIn = [coord |-> <<0, 0>>, date |-> 0]
    /\ tzOut = [res |-> NoTzRes, start |-> 0, end |-> 0]

Call_tz_for_coord ==
    \E c \in Coords :
        /\ tzOp' = "tz_for_coord"
        /\ tzIn' = [coord |-> c, date |-> 0]
        /\ tzOut' = [res |-> tz_for_coord(c[1], c[2]), start |-> 0,
                     end |-> 0]
        /\ UNCHANGED tf

Call_local_solar_date_range ==
    \E c \in Coords, d \in Days :
        /\ tzOp' = "local_solar_date_range"
        /\ tzIn' = [coord |-> c, date |-> d]
        /\ tzOut' = local_solar_date_range(c, d)
        /\ UNCHANGED tf

\* ------------------------------------------------------------------------
\* Configurable function dispatch
\* ------------------------------------------------------------------------

\* Longest positional argument list (bound defaults and call site).
MaxArgs == 1

ArgVals == {"x", "y"}
Keys == {"a", "product_cfg"}
KwVals == {"v1", "v2"}
\* Product configurations: "EMPTY" is an empty mapping, "P1" a populated one.
ProductCfgs == {"EMPTY", "P1"}

ArgLists == UNION {[1..n -> ArgVals] : n \in 0..MaxArgs}
KwMaps == UNION {[D -> KwVals] : D \in SUBSET Keys}

\* Python truth value of a product configuration / object
Truthy(v) == v \notin {None, "EMPTY"}

\* Objects: "F" is a function, "DATA" a module attribute that is not one.
Callable(v) == v = "F"

\* Importable modules and their attributes, keyed by dotted path (the
\* segments of the path as a sequence).
Modules ==
    [p \in {<<"m">>} |->
        [a \in {"f", "data"} |-> IF a = "f" THEN "F" ELSE "DATA"]]

\* Fully qualified names, as the sequence of their "."-separated segments.
Names == {<<"m", "f">>, <<"m", "data">>, <<"m", "nope">>, <<"zz", "f">>,
          <<"f">>}

\* str.rsplit('.', 1)
rsplit(name) ==
    IF Len(name) >= 2
    THEN <<SubSeq(name, 1, Len(name) - 1), <<name[Len(name)]>>>>
    ELSE <<name>>

NoRef == [isName |-> FALSE, name |-> <<>>, obj |-> None]
NameRef(n) == [isName |-> TRUE, name |-> n, obj |-> None]
ObjRef(o) == [isName |-> FALSE, name |-> <<>>, obj |-> o]
FuncRefs == {NameRef(n) : n \in Names} \cup {ObjRef("F"), ObjRef(None)}

Raise(t, m) == [type |-> t, msg |-> m]

\* get_function(func): func is a name, a callable object or None.
get_function(func) ==
    IF func.isName
    THEN LET parts == rsplit(func.name)
         IN  IF Len(parts) # 2
             THEN [raised |-> TRUE, val |-> None,
                   exc |-> Raise("ValueError",
                                 "not enough values to unpack")]
             ELSE IF parts[1] \notin DOMAIN Modules
             THEN [raised |-> TRUE, val |-> None,
                   exc |-> Raise("ModuleNotFoundError", "No module named")]
             ELSE IF parts[2][1] \notin DOMAIN Modules[parts[1]]
             THEN [raised |-> TRUE, val |-> None,
                   exc |-> Raise("AttributeError",
                                 "module has no attribute")]
             ELSE LET f == Modules[parts[1]][parts[2][1]]
                  IN  IF ~Callable(f)    \* assert callable(func)
                      THEN [raised |-> TRUE, val |-> None,
                            exc |-> Raise("AssertionError", "")]
                      ELSE [raised |-> FALSE, val |-> f, exc |-> NoExc]
    ELSE [raised |-> FALSE, val |-> func.obj, exc |-> NoExc]

BaseCfg == [kind |-> "record", obj |-> None, name |-> <<>>,
            function |-> NoRef, hasArgs |-> FALSE, args |-> <<>>,
            hasKwargs |-> FALSE, kwargs |-> <<>>, pass |-> "absent"]

\* Configuration values: a callable object, a name string, or a record
\* {function, args, kwargs, pass_product_cfg} with optional keys.
FuncCfgs ==
    {[BaseCfg EXCEPT !.kind = "callable", !.obj = "F"]}
    \cup {[BaseCfg EXCEPT !.kind = "str", !.name = n] : n \in Names}
    \cup {[BaseCfg EXCEPT !.function = f, !.hasArgs = ha[1], !.args = ha[2],
                          !.hasKwargs = hk[1], !.kwargs = hk[2],
                          !.pass = p] :
            f \in FuncRefs,
            ha \in {<<FALSE, <<>>>>} \cup ({TRUE} \X ArgLists),
            hk \in {<<FALSE, <<>>>>} \cup ({TRUE} \X KwMaps),
            p \in {"absent", "False", "True"}}

NoWrapper == [exists |-> FALSE, _func |-> None, _args |-> <<>>,
              _kwargs |-> <<>>, aliased |-> FALSE, product_cfg |-> None]

ConfigMsg == "Directly including callable objects in configuration is no longer supported. Please reference callables by fully qualified name."

\* Mutant: a callable configuration value is accepted as the function.
FunctionWrapper_init_accepts_callable(pcfg, fcfg) ==
    IF fcfg.kind = "callable"
    THEN [raised |-> FALSE, exc |-> NoExc,
          w |-> [NoWrapper EXCEPT !.exists = TRUE, !._func = fcfg.obj]]
    ELSE LET g == get_function(IF fcfg.kind = "str" THEN NameRef(fcfg.name)
                               ELSE fcfg.function)
         IN  IF g.raised
             THEN [raised |-> TRUE, exc |-> g.exc, w |-> NoWrapper]
             ELSE [raised |-> FALSE, exc |-> NoExc,
                   w |-> [NoWrapper EXCEPT !.exists = TRUE,
                                           !._func = g.val]]

\* FunctionWrapper.__init__(product_cfg, func_cfg).  "aliased" records that
\* self._kwargs is the very mapping object held by the configuration record.
FunctionWrapper_init(pcfg, fcfg) ==
    IF fcfg.kind = "callable"
    THEN [raised |-> TRUE, exc |-> Raise("ConfigException", ConfigMsg),
          w |-> NoWrapper]
    ELSE IF fcfg.kind = "str"
    THEN LET g == get_function(NameRef(fcfg.name))
         IN  IF g.raised
             THEN [raised |-> TRUE, exc |-> g.exc, w |-> NoWrapper]
             ELSE [raised |-> FALSE, exc |-> NoExc,
                   w |-> [exists |-> TRUE, _func |-> g.val, _args |-> <<>>,
                          _kwargs |-> <<>>, aliased |-> FALSE,
                          product_cfg |-> None]]
    ELSE LET g == get_function(fcfg.function)
         IN  IF g.raised
             THEN [raised |-> TRUE, exc |-> g.exc, w |-> NoWrapper]
             ELSE [raised |-> FALSE, exc |-> NoExc,
                   w |-> [exists |-> TRUE, _func |-> g.val,
                          _args |-> IF fcfg.hasArgs THEN fcfg.args
                                    ELSE <<>>,
                          _kwargs |-> IF fcfg.hasKwargs THEN fcfg.kwargs
                                      ELSE <<>>,
                          aliased |-> fcfg.hasKwargs,
                          product_cfg |-> IF fcfg.pass = "True" THEN pcfg
                                          ELSE None]]

\* dict.update / item assignment
Overlay(base, over) ==
    [x \in DOMAIN base \cup DOMAIN over |->
        IF x \in DOMAIN over THEN over[x] ELSE base[x]]
SetItem(m, key, v) ==
    [x \in DOMAIN m \cup {key} |-> IF x = key THEN v ELSE m[x]]

\* Mutant: bound defaults are placed before the call-site arguments.
calling_args_defaults_first(args, self_args) ==
    IF args # <<>> /\ self_args # <<>>
    THEN self_args \o args
    ELSE IF args # <<>> THEN args ELSE self_args

\* __call__: the positional arguments passed on
calling_args(args, self_args) ==
    IF args # <<>> /\ self_args # <<>>
    THEN args \o self_args
    ELSE IF args # <<>> THEN args ELSE self_args

\* __call__: the keyword mapping passed on; isSelf tells that it is the
\* wrapper's own self._kwargs object rather than a new mapping.
calling_kwargs(kwargs, self_kwargs) ==
    IF DOMAIN kwargs # {} /\ DOMAIN self_kwargs # {}
    THEN [map |-> Overlay(self_kwargs, kwargs), isSelf |-> FALSE]
    ELSE IF DOMAIN kwargs # {}
    THEN [map |-> kwargs, isSelf |-> FALSE]
    ELSE [map |-> self_kwargs, isSelf |-> TRUE]

NoCall == [raised |-> FALSE, exc |-> NoExc, invoked |-> FALSE,
           args |-> <<>>, kwargs |-> <<>>]

\* FunctionWrapper.__call__(*args, **kwargs) on wrapper wr: the wrapper
\* afterwards, whether self._kwargs was written, and the outcome.
FunctionWrapper_call(wr, args, kwargs) ==
    LET cargs == calling_args(args, wr._args)
        ck == calling_kwargs(kwargs, wr._kwargs)
        inject == Truthy(wr.product_cfg)
        ckw == IF inject
               THEN SetItem(ck.map, "product_cfg", wr.product_cfg)
               ELSE ck.map
        wrote == inject /\ ck.isSelf
    IN  [w |-> IF wrote THEN [wr EXCEPT !._kwargs = ckw] ELSE wr,
         wrote |-> wrote,
         out |-> IF Callable(wr._func)
                 THEN [NoCall EXCEPT !.invoked = TRUE, !.args = cargs,
                                     !.kwargs = ckw]
                 ELSE [NoCall EXCEPT !.raised = TRUE,
                                     !.exc = Raise("TypeError",
                                                   "object is not callable")]]

FwIdle ==
    /\ func_cfg = BaseCfg
    /\ func_cfg0 = BaseCfg
    /\ product_cfg = None
    /\ w = NoWrapper
    /\ w0 = NoWrapper
    /\ fwOp = "none"
    /\ callIn = [args |-> <<>>, kwargs |-> <<>>]
    /\ fwOut = NoCall

\* FunctionWrapper(product_cfg, func_cfg)
Construct ==
    /\ fwOp = "none"
    /\ \E pcfg \in ProductCfgs, fcfg \in FuncCfgs :
        LET r == FunctionWrapper_init(pcfg, fcfg)
        IN  /\ func_cfg' = fcfg
            /\ func_cfg0' = fcfg
            /\ product_cfg' = pcfg
            /\ w' = r.w
            /\ w0' = r.w
            /\ fwOp' = "init"
            /\ fwOut' = [NoCall EXCEPT !.raised = r.raised, !.exc = r.exc]
            /\ UNCHANGED callIn

\* wrapper(*args, **kwargs)
Invoke ==
    /\ w.exists
    /\ \E args \in ArgLists, kwargs \in KwMaps :
        LET r == FunctionWrapper_call(w, args, kwargs)
        IN  /\ w' = r.w
            /\ func_cfg' = IF r.wrote /\ w.aliased
                           THEN [func_cfg EXCEPT !.kwargs = r.w._kwargs]
                           ELSE func_cfg
            /\ fwOp' = "call"
            /\ callIn' = [args |-> args, kwargs |-> kwargs]
            /\ fwOut' = r.out
            /\ UNCHANGED <<func_cfg0, product_cfg, w0>>

\* ------------------------------------------------------------------------
\* Data collections
\* ------------------------------------------------------------------------

\* Largest number of add_time calls on one collection.
MaxEntries == 3

Classes == {"DataCollection", "DatasetCollection"}
Times == {1, 2}
Datasets == {"d1", "d2"}
\* Payloads: opaque data for a DataCollection, a set of datasets for a
\* DatasetCollection.
Payloads == SUBSET Datasets

\* self.TimeData(time, data): the entry class of the collection's class;
\* "attr" is the name of the attribute the payload is stored under.
TimeData(c, time, data) ==
    [time |-> time,
     attr |-> IF c = "DatasetCollection" THEN "datasets" ELSE "data",
     value |-> data]

\* Mutant: an entry equal to one already held is not added again.
add_time_dedup(c, colls, time, data) ==
    IF \E i \in 1..Len(colls) : colls[i] = TimeData(c, time, data)
    THEN colls
    ELSE Append(colls, TimeData(c, time, data))

\* DataCollection.add_time
add_time(c, colls, time, data) == Append(colls, TimeData(c, time, data))

RECURSIVE SumLens(_)
SumLens(colls) ==
    IF colls = <<>> THEN 0
    ELSE Cardinality(Head(colls).value) + SumLens(Tail(colls))

\* Mutant: the dataset collection counts its entries.
len_entries(c, colls) == Len(colls)

\* len(collection): DataCollection.__len__ / DatasetCollection.__len__
len(c, colls) ==
    IF c = "DatasetCollection" THEN SumLens(colls) ELSE Len(colls)

NoOut == [kind |-> "none", int |-> 0, bool |-> FALSE, value |-> {},
          list |-> <<>>, exc |-> NoExc]

\* DataCollection.collapse_to_single (inherited by DatasetCollection)
collapse_to_single(c, colls) ==
    IF colls # <<>>
    THEN IF colls[1].attr = "data"
         THEN [NoOut EXCEPT !.kind = "value", !.value = colls[1].value]
         ELSE [NoOut EXCEPT !.kind = "raise",
                            !.exc = Raise("AttributeError",
                                          "object has no attribute 'data'")]
    ELSE [NoOut EXCEPT !.kind = "absent"]

\* DataCollection.data_list (inherited by DatasetCollection)
data_list(c, colls) ==
    IF \E i \in 1..Len(colls) : colls[i].attr # "data"
    THEN [NoOut EXCEPT !.kind = "raise",
                       !.exc = Raise("AttributeError",
                                     "object has no attribute 'data'")]
    ELSE [NoOut EXCEPT !.kind = "list",
                       !.list = [i \in 1..Len(colls) |-> colls[i].value]]

\* list(iter(collection)): the (time, payload) pairs produced
iterate(c, colls) ==
    [NoOut EXCEPT !.kind = "entries",
                  !.list = [i \in 1..Len(colls) |->
                                <<colls[i].time, colls[i].value>>]]

DcIdle ==
    /\ _collections = <<>>
    /\ added = <<>>
    /\ dcOp = "none"
    /\ dcOut = NoOut

Do_add_time ==
    /\ Len(added) < MaxEntries
    /\ \E t \in Times, d \in Payloads :
        /\ _collections' = add_time(cls, _collections, t, d)
        /\ added' = Append(added, <<t, d>>)
        /\ dcOp' = "add_time"
        /\ dcOut' = NoOut
        /\ UNCHANGED cls

Do_len ==
    /\ dcOp' = "len"
    /\ dcOut' = [NoOut EXCEPT !.kind = "int",
                              !.int = len(cls, _collections)]
    /\ UNCHANGED <<cls, _collections, added>>

\* DataCollection.__bool__
Do_bool ==
    /\ dcOp' = "bool"
    /\ dcOut' = [NoOut EXCEPT !.kind = "bool",
                              !.bool = (len(cls, _collections) # 0)]
    /\ UNCHANGED <<cls, _collections, added>>

Do_collapse_to_single ==
    /\ dcOp' = "collapse_to_single"
    /\ dcOut' = collapse_to_single(cls, _collections)
    /\ UNCHANGED <<cls, _collections, added>>

Do_data_list ==
    /\ dcOp' = "data_list"
    /\ dcOut' = data_list(cls, _collections)
    /\ UNCHANGED <<cls, _collections, added>>

Do_iter ==
    /\ dcOp' = "iter"
    /\ dcOut' = iterate(cls, _collections)
    /\ UNCHANGED <<cls, _collections, added>>

\* ------------------------------------------------------------------------
\* Specifications
\* ------------------------------------------------------------------------

InitTz ==
    /\ unit = "tz"
    /\ tf \in [Coords -> [Deltas -> TzNames \cup {None}]]
    /\ TzIdle
    /\ FwIdle
    /\ cls = "DataCollection"
    /\ DcIdle

NextTz ==
    \/ Call_tz_for_coord /\ UNCHANGED <<unit, fwVars, dcVars>>
    \/ Call_local_solar_date_range /\ UNCHANGED <<unit, fwVars, dcVars>>

SpecTz == InitTz /\ [][NextTz]_vars

InitFW ==
    /\ unit = "fw"
    /\ tf = [c \in Coords |-> [d \in Deltas |-> None]]
    /\ TzIdle
    /\ FwIdle
    /\ cls = "DataCollection"
    /\ DcIdle

NextFW ==
    \/ Construct /\ UNCHANGED <<unit, tzVars, dcVars>>
    \/ Invoke /\ UNCHANGED <<unit, tzVars, dcVars>>

SpecFW == InitFW /\ [][NextFW]_vars

InitDC ==
    /\ unit = "dc"
    /\ tf = [c \in Coords |-> [d \in Deltas |-> None]]
    /\ TzIdle
    /\ FwIdle
    /\ cls \in Classes
    /\ DcIdle

NextDC ==
    \/ Do_add_time /\ UNCHANGED <<unit, tzVars, fwVars>>
    \/ Do_len /\ UNCHANGED <<unit, tzVars, fwVars>>
    \/ Do_bool /\ UNCHANGED <<unit, tzVars, fwVars>>
    \/ Do_collapse_to_single /\ UNCHANGED <<unit, tzVars, fwVars>>
    \/ Do_data_list /\ UNCHANGED <<unit, tzVars, fwVars>>
    \/ Do_iter /\ UNCHANGED <<unit, tzVars, fwVars>>

SpecDC == InitDC /\ [][NextDC]_vars

Init == InitTz \/ InitFW \/ InitDC
Next ==
    \/ unit = "tz" /\ NextTz
    \/ unit = "fw" /\ NextFW
    \/ unit = "dc" /\ NextDC
Spec == Init /\ [][Next]_vars

\* ------------------------------------------------------------------------
\* Properties
\* ------------------------------------------------------------------------

\* C1: tz_for_coord looks up with delta 9 first; the delta 15 lookup is made
\* exactly when the delta 9 lookup found nothing; the first lookup that
\* finds a timezone gives the result; the call raises iff both lookups find
\* nothing; at most two lookups are made.
C1_TwoStageLookup ==
    tzOp # "none" =>
        LET t9 == tf[tzIn.coord][9]
            t15 == tf[tzIn.coord][15]
            r == tzOut.res
        IN  /\ Len(r.lookups) \in {1, 2}
            /\ r.lookups[1] = 9
            /\ (Len(r.lookups) = 2) <=> (t9 = None)
            /\ (Len(r.lookups) = 2) => r.lookups[2] = 15
            /\ r.raised <=> (t9 = None /\ t15 = None)
            /\ ~r.raised =>
                /\ r.tzn = (IF t9 # None THEN t9 ELSE t15)
                /\ r.tz = Zones[r.tzn]

\* C1 witness: the delta 9 lookup missed and the delta 15 lookup gave the
\* timezone returned.
C1_Witness ==
    /\ tzOp = "tz_for_coord"
    /\ tzOut.res.lookups = <<9, 15>>
    /\ ~tzOut.res.raised
    /\ tzOut.res.tzn = "Etc/GMT-10"

\* The configuration names a function whose module imports but whose
\* attribute is missing or is not callable.
NamedAttrUnresolvable(fcfg) ==
    LET ref == IF fcfg.kind = "str" THEN NameRef(fcfg.name)
               ELSE fcfg.function
    IN  /\ fcfg.kind \in {"str", "record"}
        /\ ref.isName
        /\ Len(ref.name) >= 2
        /\ SubSeq(ref.name, 1, Len(ref.name) - 1) \in DOMAIN Modules
        /\ LET attrs == Modules[SubSeq(ref.name, 1, Len(ref.name) - 1)]
               a == ref.name[Len(ref.name)]
           IN  a \notin DOMAIN attrs \/ ~Callable(attrs[a])

\* C2: every resolution failure reaches the caller as a ResolutionError with
\* a descriptive message: tz_for_coord when both lookups find nothing, and
\* resolving a function name whose attribute is missing or not callable.
C2_ResolutionErrors ==
    /\ (tzOp # "none" /\ tf[tzIn.coord][9] = None
            /\ tf[tzIn.coord][15] = None) =>
        /\ tzOut.res.raised
        /\ tzOut.res.exc.type = "ResolutionError"
        /\ tzOut.res.exc.msg # ""
    /\ (fwOp = "init" /\ NamedAttrUnresolvable(func_cfg0)) =>
        /\ fwOut.raised
        /\ fwOut.exc.type = "ResolutionError"
        /\ fwOut.exc.msg # ""

\* C3: constructing a FunctionWrapper from a callable object raises a
\* configuration error at construction: no wrapper exists afterwards, so
\* nothing is invoked and no later call can fail in its place.
C3_CallableRejected ==
    (fwOp # "none" /\ func_cfg0.kind = "callable") =>
        /\ fwOp = "init"
        /\ fwOut.raised
        /\ fwOut.exc.type = "ConfigException"
        /\ fwOut.exc.msg # ""
        /\ ~w.exists
        /\ ~fwOut.invoked

\* C3 witness: a construction from a callable object has been attempted.
C3_Witness ==
    /\ fwOp = "init"
    /\ func_cfg0.kind = "callable"
    /\ Callable(func_cfg0.obj)
    /\ fwOut.raised

\* C4 (as claimed): the function is invoked with the call-site positional
\* arguments followed by the bound ones, and with exactly the bound keyword
\* defaults overlaid by the call-site keywords.
C4_Original ==
    (fwOp = "call" /\ fwOut.invoked) =>
        /\ fwOut.args = callIn.args \o w0._args
        /\ fwOut.kwargs = Overlay(w0._kwargs, callIn.kwargs)

\* C4 (amended): the function is invoked with the call-site positional
\* arguments followed by the bound ones, and with the bound keyword
\* defaults overlaid by the call-site keywords and then, when the wrapper
\* retains a (truthy) product configuration, with key product_cfg set to it.
C4_Amended ==
    (fwOp = "call" /\ fwOut.invoked) =>
        /\ fwOut.args = callIn.args \o w0._args
        /\ fwOut.kwargs =
            IF Truthy(w0.product_cfg)
            THEN SetItem(Overlay(w0._kwargs, callIn.kwargs), "product_cfg",
                         w0.product_cfg)
            ELSE Overlay(w0._kwargs, callIn.kwargs)

\* C4 witness: a call with call-site and bound positional arguments, a key
\* bound and given at the call site with different values, and a retained
\* product configuration.
C4_Witness ==
    /\ fwOp = "call"
    /\ fwOut.invoked
    /\ callIn.args # <<>>
    /\ w0._args # <<>>
    /\ callIn.args # w0._args
    /\ "a" \in DOMAIN callIn.kwargs \cap DOMAIN w0._kwargs
    /\ callIn.kwargs["a"] # w0._kwargs["a"]
    /\ fwOut.kwargs["a"] = callIn.kwargs["a"]
    /\ Truthy(w0.product_cfg)

\* C5: a wrapper built from a record with pass_product_cfg true passes
\* product_cfg equal to the product configuration given at construction on
\* every invocation; a wrapper built without it adds no product_cfg.
C5_ProductCfgInjected ==
    (fwOp = "call" /\ fwOut.invoked) =>
        IF func_cfg0.kind = "record" /\ func_cfg0.pass = "True"
        THEN /\ "product_cfg" \in DOMAIN fwOut.kwargs
             /\ fwOut.kwargs["product_cfg"] = product_cfg
        ELSE fwOut.kwargs = Overlay(w0._kwargs, callIn.kwargs)

RECURSIVE SumSizes(_)
SumSizes(pairs) ==
    IF pairs = <<>> THEN 0
    ELSE Cardinality(pairs[1][2]) + SumSizes(Tail(pairs))

\* C6: the entries of a collection are exactly the added (time, payload)
\* pairs in the order added; for a DataCollection, count is the number of
\* adds, the collection is empty iff that is zero, and iteration and
\* data_list produce the entries in the order added.
C6_EntriesAreAdds ==
    /\ Len(_collections) = Len(added)
    /\ \A i \in 1..Len(added) :
        <<_collections[i].time, _collections[i].value>> = added[i]
    /\ cls = "DataCollection" =>
        /\ len(cls, _collections) = Len(added)
        /\ dcOp = "len" => dcOut.int = Len(added)
        /\ dcOp = "bool" => (~dcOut.bool <=> Len(added) = 0)
        /\ dcOp = "iter" => dcOut.list = added
        /\ dcOp = "data_list" =>
            /\ dcOut.kind = "list"
            /\ dcOut.list = [i \in 1..Len(added) |-> added[i][2]]

\* C6 witness: three adds, two of them equal and the last one with an
\* earlier timestamp, followed by a listing.
C6_Witness ==
    /\ cls = "DataCollection"
    /\ dcOp = "data_list"
    /\ Len(added) = 3
    /\ added[1] = added[2]
    /\ added[3][1] < added[1][1]
    /\ Len(dcOut.list) = 3

\* C7: collapse_to_single returns the payload of the first entry added when
\* there is one and an absent value otherwise, for both collection classes.
C7_CollapseFirst ==
    dcOp = "collapse_to_single" =>
        IF added # <<>>
        THEN dcOut.kind = "value" /\ dcOut.value = added[1][2]
        ELSE dcOut.kind = "absent"

\* C8: the count of a DatasetCollection is the sum of the sizes of the
\* dataset sets added, not the number of adds.
C8_DatasetCount ==
    cls = "DatasetCollection" =>
        /\ len(cls, _collections) = SumSizes(added)
        /\ dcOp = "len" => dcOut.int = SumSizes(added)

\* C8 witness: a count taken after three adds, one of an empty dataset set,
\* that differs from the number of adds.
C8_Witness ==
    /\ cls = "DatasetCollection"
    /\ dcOp = "len"
    /\ Len(added) = 3
    /\ \E i \in 1..3 : added[i][2] = {}
    /\ dcOut.int # Len(added)
    /\ dcOut.int > 0

\* C9: for a geobox whose centroid resolves to a timezone,
\* local_solar_date_range returns (start, end) with end - start = 23:59:59
\* and both, converted back to that timezone, on the input date.
C9_SolarDay ==
    (tzOp = "local_solar_date_range" /\ ~tzOut.res.raised) =>
        /\ tzOut.end - tzOut.start = 23 * 3600 + 59 * 60 + 59
        /\ LocalDateOf(tzOut.start, tzOut.res.tz) = tzIn.date
        /\ LocalDateOf(tzOut.end, tzOut.res.tz) = tzIn.date

\* C10: invocations leave the wrapper's bound positional and keyword
\* defaults, its retained product configuration and the configuration
\* record's kwargs as they were after construction.
C10_CallLeavesBoundState ==
    (fwOp = "call" /\ fwOut.invoked) =>
        /\ w._args = w0._args
        /\ w._kwargs = w0._kwargs
        /\ w.product_cfg = w0.product_cfg
        /\ func_cfg.kwargs = func_cfg0.kwargs

====
